---- MODULE Spec2Model ----
(***************************************************************************)
(* The rules engine of ultimate tic-tac-toe (src/src/lib/game.ts) as a     *)
(* state machine.  The variable game is the GameState the caller holds;    *)
(* every action is one call of an exported operation on it, and last is    *)
(* what that call returned beside the state.                               *)
(*                                                                         *)
(* JavaScript values are written as follows: null and an absent cell or    *)
(* winner are the string Null; an index that is null is NoBoard; an        *)
(* optional object (rps, finalRps, resolvedRps) is the empty sequence when *)
(* it is null/undefined and a one-element sequence otherwise; a            *)
(* Partial<Record<Player, RpsChoice>> is a function whose domain is the    *)
(* set of players that have a throw.                                       *)
(***************************************************************************)
EXTENDS Integers, Sequences, FiniteSets, TLC

VARIABLES game, last, peerGame, channel

vars == <<game, last, peerGame, channel>>

\* ---------------------------------------------------------------- values

Null == "null"
undefined == "undefined"
NoBoard == -1
Nothing == <<>>
Some(x) == <<x>>

Player == {"X", "O"}
RpsChoice == {"rock", "paper", "scissors", "lizard", "spock"}
Index == 0 .. 8

\* Mutant of Other: the turn is not handed over.
OtherSame(p) == p

Other(p) == IF p = "X" THEN "O" ELSE "X"

\* ------------------------------------------------------------ bounds

\* Free play from the fresh state is explored until this many marks are on
\* the boards; the replayed positions below are explored to the end.
MaxOpeningMarks == 2

\* ---------------------------------------------------------------- engine

\* Variant: the second diagonal is mistyped.
WIN_LINESTypo ==
  << <<0, 1, 2>>, <<3, 4, 5>>, <<6, 7, 8>>,
     <<0, 3, 6>>, <<1, 4, 7>>, <<2, 5, 8>>,
     <<0, 4, 8>>, <<2, 4, 7>> >>

WIN_LINES ==
  << <<0, 1, 2>>, <<3, 4, 5>>, <<6, 7, 8>>,
     <<0, 3, 6>>, <<1, 4, 7>>, <<2, 5, 8>>,
     <<0, 4, 8>>, <<2, 4, 6>> >>

defaultNames == [X |-> "Player X", O |-> "Player O"]

createEmptyBoard ==
  [cells |-> [i \in Index |-> Null], winner |-> Null, rps |-> Nothing]

createInitialState ==
  [boards |-> [b \in Index |-> createEmptyBoard],
   macroWinner |-> Null,
   currentPlayer |-> "X",
   nextBoard |-> NoBoard,
   pendingRpsBoard |-> NoBoard,
   pendingFinalRps |-> FALSE,
   finalRps |-> Nothing,
   names |-> defaultNames,
   bots |-> [X |-> "none", O |-> "none"]]

\* Variant: tests for an empty board instead of a full one.
boardIsFullEmpty(cells) == \A i \in Index : cells[i] = Null

boardIsFull(cells) == \A i \in Index : cells[i] # Null

\* Variant: only the three rows are looked at.
detectWinnerRows(cells) ==
  LET hits == {k \in 1 .. 3 :
                 /\ cells[WIN_LINES[k][1]] # Null
                 /\ cells[WIN_LINES[k][1]] = cells[WIN_LINES[k][2]]
                 /\ cells[WIN_LINES[k][1]] = cells[WIN_LINES[k][3]]}
  IN  IF hits = {} THEN Null
      ELSE LET first == CHOOSE k \in hits : \A j \in hits : k <= j
           IN  cells[WIN_LINES[first][1]]

\* The first line of WIN_LINES, in order, that one player holds.
detectWinner(cells) ==
  LET hits == {k \in DOMAIN WIN_LINES :
                 /\ cells[WIN_LINES[k][1]] # Null
                 /\ cells[WIN_LINES[k][1]] = cells[WIN_LINES[k][2]]
                 /\ cells[WIN_LINES[k][1]] = cells[WIN_LINES[k][3]]}
  IN  IF hits = {} THEN Null
      ELSE LET first == CHOOSE k \in hits : \A j \in hits : k <= j
           IN  cells[WIN_LINES[first][1]]

\* Variant: CAT boards are not mapped to empty cells.
determineMacroWinnerCat(boards) ==
  detectWinner([b \in Index |-> boards[b].winner])

determineMacroWinner(boards) ==
  detectWinner([b \in Index |->
                  IF boards[b].winner = "CAT" THEN Null ELSE boards[b].winner])

\* The indices, ascending, of the boards whose winner is null.
OpenBoardList(boards) ==
  SelectSeq([k \in 1 .. 9 |-> k - 1], LAMBDA b : boards[b].winner = Null)

\* Mutant of getAllowedBoards: the constrained board is not checked for
\* being closed.
getAllowedBoardsStrict(state) ==
  IF state.pendingRpsBoard # NoBoard \/ state.pendingFinalRps THEN <<>>
  ELSE IF state.nextBoard = NoBoard THEN OpenBoardList(state.boards)
  ELSE <<state.nextBoard>>

getAllowedBoards(state) ==
  IF state.pendingRpsBoard # NoBoard \/ state.pendingFinalRps THEN <<>>
  ELSE IF state.nextBoard = NoBoard THEN OpenBoardList(state.boards)
  ELSE IF state.boards[state.nextBoard].winner = Null THEN <<state.nextBoard>>
  ELSE OpenBoardList(state.boards)

includes(list, x) == \E k \in DOMAIN list : list[k] = x

emptyFinalRps ==
  [picks |-> <<>>, lastOutcome |-> undefined,
   score |-> [X |-> 0, O |-> 0], rounds |-> 0]

\* Mutant of nextBoardAfter: the constraint is never relaxed.
nextBoardStale(updatedBoards, cellIndex) == cellIndex

\* Variant: a board in tiebreak still counts as open.
nextBoardCat(updatedBoards, cellIndex) ==
  IF updatedBoards[cellIndex].winner \in Player THEN NoBoard ELSE cellIndex

\* playMove, lines 143 and 160-166: the next-board constraint is the played
\* cell's index unless that board is closed after the move.
nextBoardAfter(updatedBoards, cellIndex) ==
  IF updatedBoards[cellIndex].winner # Null THEN NoBoard ELSE cellIndex

\* playMove, lines 136-195: the move is legal and is applied.  The local
\* pendingFinalRps of lines 170-186 has no declaration in the source; on this
\* path state.pendingFinalRps is false (getAllowedBoards returned a board),
\* so the value it holds before line 170 is false.
applyMove(state, boardIndex, cellIndex) ==
  LET board == state.boards[boardIndex]
      cells == [board.cells EXCEPT ![cellIndex] = state.currentPlayer]
      microWinner == detectWinner(cells)
      isCat == microWinner = Null /\ boardIsFull(cells)
      updatedBoard ==
        IF microWinner # Null
          THEN [board EXCEPT !.cells = cells, !.winner = microWinner]
        ELSE IF isCat
          THEN [board EXCEPT !.cells = cells, !.winner = "CAT",
                             !.rps = Some([picks |-> <<>>,
                                           lastOutcome |-> undefined])]
        ELSE [board EXCEPT !.cells = cells]
      pendingRpsBoard == IF isCat THEN boardIndex ELSE state.pendingRpsBoard
      updatedBoards == [state.boards EXCEPT ![boardIndex] = updatedBoard]
      macroWinner == determineMacroWinner(updatedBoards)
      nextBoard == nextBoardAfter(updatedBoards, cellIndex)
      allBoardsClosed == \A b \in Index : updatedBoards[b].winner # Null
      pendingFinalRps ==
        macroWinner = Null /\ allBoardsClosed /\ pendingRpsBoard = NoBoard
  IN  [state EXCEPT
         !.boards = updatedBoards,
         !.macroWinner = macroWinner,
         !.currentPlayer = Other(state.currentPlayer),
         !.nextBoard = nextBoard,
         !.pendingRpsBoard = pendingRpsBoard,
         !.pendingFinalRps = pendingFinalRps,
         !.finalRps = IF pendingFinalRps /\ state.finalRps = Nothing
                        THEN Some(emptyFinalRps) ELSE state.finalRps]

\* Mutant of rejection: an occupied cell is not refused.
rejectionNoTaken(state, boardIndex, cellIndex) ==
  IF state.pendingRpsBoard # NoBoard
    THEN "Finish Rock-Paper-Scissors first."
  ELSE IF ~includes(getAllowedBoards(state), boardIndex)
    THEN "You cannot play in that board right now."
  ELSE IF state.boards[boardIndex].winner # Null
    THEN "That board is already decided."
  ELSE undefined

\* playMove, lines 119-134: the reason a call is rejected, checked in the
\* source's order, or undefined when the move is legal.
rejection(state, boardIndex, cellIndex) ==
  IF state.pendingRpsBoard # NoBoard
    THEN "Finish Rock-Paper-Scissors first."
  ELSE IF ~includes(getAllowedBoards(state), boardIndex)
    THEN "You cannot play in that board right now."
  ELSE IF state.boards[boardIndex].winner # Null
    THEN "That board is already decided."
  ELSE IF state.boards[boardIndex].cells[cellIndex] # Null
    THEN "That square is already taken."
  ELSE undefined

\* Mutant of reject: the turn is handed over although the call failed.
rejectFlip(state, error) ==
  [state |-> [state EXCEPT !.currentPlayer = IF @ = "X" THEN "O" ELSE "X"],
   error |-> error]

\* return { state, error }
reject(state, error) == [state |-> state, error |-> error]

playMove(state, boardIndex, cellIndex) ==
  LET error == rejection(state, boardIndex, cellIndex)
  IN  IF error # undefined THEN reject(state, error)
      ELSE [state |-> applyMove(state, boardIndex, cellIndex),
            error |-> undefined]

\* Variant: one rule (lizard eats paper) is missing from the table.
RPS_RULESIncomplete ==
  [rock |-> {"scissors", "lizard"},
   paper |-> {"rock", "spock"},
   scissors |-> {"paper", "lizard"},
   lizard |-> {"spock"},
   spock |-> {"scissors", "rock"}]

RPS_RULES ==
  [rock |-> {"scissors", "lizard"},
   paper |-> {"rock", "spock"},
   scissors |-> {"paper", "lizard"},
   lizard |-> {"spock", "paper"},
   spock |-> {"scissors", "rock"}]

\* Variant: the rule table is consulted for the wrong throw.
compareRpsSwapped(a, b) ==
  IF a = b THEN "tie" ELSE IF a \in RPS_RULES[b] THEN "a" ELSE "b"

\* Variant: the first throw wins every round that is not a tie.
compareRpsFirst(a, b) ==
  IF a = b THEN "tie" ELSE "a"

\* Variant: equal throws are not recognised as a tie.
compareRpsNoTie(a, b) ==
  IF b \in RPS_RULES[a] THEN "a" ELSE "b"

\* Variant: equal throws are decided for X.
compareRpsEqualWins(a, b) ==
  IF a = b THEN "a" ELSE IF b \in RPS_RULES[a] THEN "a" ELSE "b"

compareRps(a, b) ==
  IF a = b THEN "tie" ELSE IF b \in RPS_RULES[a] THEN "a" ELSE "b"

RPS_VERBS ==
  [rock |-> [scissors |-> "crushes", lizard |-> "crushes"],
   paper |-> [rock |-> "covers", spock |-> "disproves"],
   scissors |-> [paper |-> "cuts", lizard |-> "decapitates"],
   lizard |-> [spock |-> "poisons", paper |-> "eats"],
   spock |-> [scissors |-> "smashes", rock |-> "vaporizes"]]

\* Variant: the table is looked up with the throws in the wrong order.
rpsVerbSwapped(a, b) ==
  IF a \in DOMAIN RPS_VERBS[b] THEN RPS_VERBS[b][a] ELSE "beats"

rpsVerb(a, b) ==
  IF b \in DOMAIN RPS_VERBS[a] THEN RPS_VERBS[a][b] ELSE "beats"

\* Variant: a throw already recorded for the player is kept.
withPickKeep(picks, player, choice) == picks @@ (player :> choice)

\* Variant: the earlier picks are not carried over.
withPickOnly(picks, player, choice) == (player :> choice)

\* { ...picks, [player]: choice }
withPick(picks, player, choice) == (player :> choice) @@ picks

bothPicked(picks) == "X" \in DOMAIN picks /\ "O" \in DOMAIN picks

\* Variant: one closed board is enough.
allClosedSome(boards) == \E b \in Index : boards[b].winner # Null

\* Variant: the boards are never seen as all closed.
allClosedNever(boards) == FALSE

allClosed(boards) == \A b \in Index : boards[b].winner # Null

\* submitRpsChoice, lines 242-370: a micro-tiebreak is pending.
applyRpsChoice(state, player, choice) ==
  LET boardIndex == state.pendingRpsBoard
      board == state.boards[boardIndex]
      existing == IF board.rps = Nothing
                    THEN [picks |-> <<>>, lastOutcome |-> undefined]
                    ELSE board.rps[1]
      picks == withPick(existing.picks, player, choice)
      nextTurn == state.currentPlayer
      thrown == [board EXCEPT !.rps = Some([existing EXCEPT !.picks = picks])]
      outcome == compareRps(picks["X"], picks["O"])
      winningPlayer == IF outcome = "a" THEN "X" ELSE "O"
  IN  IF bothPicked(picks) /\ outcome # "tie"
        THEN \* lines 270-326: decisive round
          LET updatedBoard ==
                [thrown EXCEPT !.winner = winningPlayer,
                               !.rps = Some([picks |-> picks,
                                             lastOutcome |-> winningPlayer])]
              resolvedRps ==
                [boardIndex |-> boardIndex,
                 winner |-> winningPlayer,
                 picks |-> picks,
                 verb |-> IF outcome = "a"
                            THEN rpsVerb(picks["X"], picks["O"])
                            ELSE rpsVerb(picks["O"], picks["X"])]
              updatedBoards == [state.boards EXCEPT ![boardIndex] = updatedBoard]
              macroWinner == determineMacroWinner(updatedBoards)
          IN  IF macroWinner = Null /\ allClosed(updatedBoards)
                THEN [state |-> [state EXCEPT
                                   !.boards = updatedBoards,
                                   !.pendingRpsBoard = NoBoard,
                                   !.macroWinner = macroWinner,
                                   !.currentPlayer = nextTurn,
                                   !.pendingFinalRps = TRUE,
                                   !.finalRps = IF state.finalRps = Nothing
                                                  THEN Some(emptyFinalRps)
                                                  ELSE state.finalRps],
                      error |-> undefined,
                      resolvedRps |-> Some(resolvedRps)]
                ELSE [state |-> [state EXCEPT
                                   !.boards = updatedBoards,
                                   !.pendingRpsBoard = NoBoard,
                                   !.macroWinner = macroWinner,
                                   !.currentPlayer = nextTurn],
                      error |-> undefined,
                      resolvedRps |-> Some(resolvedRps)]
        ELSE \* lines 263-268 (tie), 328-330 (first throw), then 332-370
          LET updatedBoard ==
                IF bothPicked(picks)
                  THEN [thrown EXCEPT !.rps = Some([picks |-> <<>>,
                                                    lastOutcome |-> "tie"])]
                  ELSE thrown
              currentPlayer == Other(player)
              pendingRpsBoard == state.pendingRpsBoard
              macroWinner == state.macroWinner
              updatedBoards == [state.boards EXCEPT ![boardIndex] = updatedBoard]
          IN  IF macroWinner = Null /\ pendingRpsBoard = NoBoard
                 /\ allClosed(updatedBoards)
                THEN [state |-> [state EXCEPT
                                   !.boards = updatedBoards,
                                   !.pendingRpsBoard = pendingRpsBoard,
                                   !.macroWinner = macroWinner,
                                   !.currentPlayer = currentPlayer,
                                   !.pendingFinalRps = TRUE,
                                   !.finalRps = IF state.finalRps = Nothing
                                                  THEN Some(emptyFinalRps)
                                                  ELSE state.finalRps],
                      error |-> undefined,
                      resolvedRps |-> Nothing]
                ELSE [state |-> [state EXCEPT
                                   !.boards = updatedBoards,
                                   !.pendingRpsBoard = pendingRpsBoard,
                                   !.macroWinner = macroWinner,
                                   !.currentPlayer = currentPlayer],
                      error |-> undefined,
                      resolvedRps |-> Nothing]

\* Variant: the tiebreak is dropped after any throw.
submitRpsChoiceOnce(state, player, choice) ==
  IF state.pendingRpsBoard = NoBoard
    THEN [state |-> state, error |-> "No RPS pending.", resolvedRps |-> Nothing]
    ELSE LET r == applyRpsChoice(state, player, choice)
         IN  [r EXCEPT !.state.pendingRpsBoard = NoBoard]

submitRpsChoice(state, player, choice) ==
  IF state.pendingRpsBoard = NoBoard
    THEN [state |-> state, error |-> "No RPS pending.", resolvedRps |-> Nothing]
    ELSE applyRpsChoice(state, player, choice)

\* Mutant of boardMoves: occupied cells are listed too.
boardMovesAll(state, boardIndex) ==
  [k \in 1 .. 9 |-> [board |-> boardIndex, cell |-> k - 1]]

\* The empty cells of one board, ascending, as moves.
boardMoves(state, boardIndex) ==
  LET open == SelectSeq([k \in 1 .. 9 |-> k - 1],
                        LAMBDA c : state.boards[boardIndex].cells[c] = Null)
  IN  [k \in DOMAIN open |-> [board |-> boardIndex, cell |-> open[k]]]

RECURSIVE movesOf(_, _)
movesOf(state, allowedBoards) ==
  IF allowedBoards = <<>> THEN <<>>
  ELSE boardMoves(state, Head(allowedBoards))
         \o movesOf(state, Tail(allowedBoards))

\* Variant: the empty cells of every board are offered.
availableMovesAnywhere(state) ==
  movesOf(state, [k \in 1 .. 9 |-> k - 1])

availableMoves(state) == movesOf(state, getAllowedBoards(state))

\* submitFinalRpsChoice, lines 468-512: the galaxy tiebreak is pending.
\* ------------------------------------------------------------ AI (389-600)

BotLevel == {"none", "easy", "smart", "hard"}

\* Scores are kept in half points: evaluateState weighs a board by 1.5, so
\* every score of the source is doubled here and stays an integer.
Half == 2

\* Variant: the opponent's lines weigh as much as the player's.
lineScoreSymmetric(cells, line, player) ==
  LET values == [j \in 1 .. 3 |-> cells[line[j]]]
      ours == Cardinality({j \in 1 .. 3 : values[j] = player})
      theirs == Cardinality({j \in 1 .. 3 : values[j] = Other(player)})
      empty == Cardinality({j \in 1 .. 3 : values[j] = Null})
  IN  IF theirs = 0
        THEN IF ours = 3 THEN 100
             ELSE IF ours = 2 /\ empty = 1 THEN 15
             ELSE IF ours = 1 /\ empty = 2 THEN 3
             ELSE 0
      ELSE IF ours = 0
        THEN IF theirs = 3 THEN -100
             ELSE IF theirs = 2 /\ empty = 1 THEN -15
             ELSE IF theirs = 1 /\ empty = 2 THEN -3
             ELSE 0
      ELSE 0

\* One line of scoreLines, lines 583-597.
lineScore(cells, line, player) ==
  LET values == [j \in 1 .. 3 |-> cells[line[j]]]
      ours == Cardinality({j \in 1 .. 3 : values[j] = player})
      theirs == Cardinality({j \in 1 .. 3 : values[j] = Other(player)})
      empty == Cardinality({j \in 1 .. 3 : values[j] = Null})
  IN  IF theirs = 0
        THEN IF ours = 3 THEN 100
             ELSE IF ours = 2 /\ empty = 1 THEN 15
             ELSE IF ours = 1 /\ empty = 2 THEN 3
             ELSE 0
      ELSE IF ours = 0
        THEN IF theirs = 3 THEN -100
             ELSE IF theirs = 2 /\ empty = 1 THEN -12
             ELSE IF theirs = 1 /\ empty = 2 THEN -2
             ELSE 0
      ELSE 0

RECURSIVE scoreLinesFrom(_, _, _)
scoreLinesFrom(cells, player, k) ==
  IF k > Len(WIN_LINES) THEN 0
  ELSE lineScore(cells, WIN_LINES[k], player)
         + scoreLinesFrom(cells, player, k + 1)

scoreLines(cells, player) == scoreLinesFrom(cells, player, 1)

\* The contribution of one board to microScore, lines 567-574, doubled.
boardScore(state, idx, player) ==
  LET board == state.boards[idx]
  IN  IF board.winner = "CAT" THEN 0
      ELSE IF board.winner = player THEN 50 * Half
      ELSE IF board.winner = Other(player) THEN -50 * Half
      ELSE IF state.nextBoard = NoBoard \/ state.nextBoard = idx
        THEN scoreLines(board.cells, player) * 3
      ELSE scoreLines(board.cells, player) * Half

RECURSIVE microScoreFrom(_, _, _)
microScoreFrom(state, player, idx) ==
  IF idx > 8 THEN 0
  ELSE boardScore(state, idx, player) + microScoreFrom(state, player, idx + 1)

\* Doubled.
evaluateState(state, player) ==
  IF state.macroWinner = player THEN 5000 * Half
  ELSE IF state.macroWinner = Other(player) THEN -5000 * Half
  ELSE LET macroCells == [b \in Index |->
                           IF state.boards[b].winner = "CAT" THEN Null
                           ELSE state.boards[b].winner]
       IN  scoreLines(macroCells, player) * 20 * Half
             + microScoreFrom(state, player, 0)

Max(S) == CHOOSE x \in S : \A y \in S : y <= x
Min(S) == CHOOSE x \in S : \A y \in S : x <= y

\* Doubled.
RECURSIVE minimax(_, _, _, _)
minimax(state, depth, maximizing, player) ==
  IF state.macroWinner # Null
    THEN IF state.macroWinner = player THEN 10000 * Half ELSE -10000 * Half
  ELSE IF depth = 0 THEN evaluateState(state, player)
  ELSE IF state.pendingRpsBoard # NoBoard THEN evaluateState(state, player)
  ELSE LET moves == availableMoves(state)
           scores == {minimax(playMove(state, moves[k].board,
                                       moves[k].cell).state,
                              depth - 1, ~maximizing, player) :
                        k \in DOMAIN moves}
       IN  IF moves = <<>> THEN evaluateState(state, player)
           ELSE IF maximizing THEN Max(scores)
           ELSE Min(scores)

\* Math.max / Math.min start from -Infinity / Infinity; every score is far
\* inside these.
Infinity == 1000000

\* Variant: a later move with an equal score replaces the best move.
RECURSIVE bestFromLast(_, _, _, _, _, _)
bestFromLast(state, moves, depth, k, bestMove, bestScore) ==
  IF k > Len(moves) THEN bestMove
  ELSE LET move == moves[k]
           result == playMove(state, move.board, move.cell)
           score == minimax(result.state, depth - 1, FALSE,
                            state.currentPlayer)
       IN  IF score >= bestScore
             THEN bestFromLast(state, moves, depth, k + 1, Some(move), score)
             ELSE bestFromLast(state, moves, depth, k + 1, bestMove,
                               bestScore)

\* The loop of lines 407-415 from move k on: the first move whose score is
\* greater than every score before it.
RECURSIVE bestFrom(_, _, _, _, _, _)
bestFrom(state, moves, depth, k, bestMove, bestScore) ==
  IF k > Len(moves) THEN bestMove
  ELSE LET move == moves[k]
           result == playMove(state, move.board, move.cell)
           score == minimax(result.state, depth - 1, FALSE,
                            state.currentPlayer)
       IN  IF score > bestScore
             THEN bestFrom(state, moves, depth, k + 1, Some(move), score)
             ELSE bestFrom(state, moves, depth, k + 1, bestMove, bestScore)

\* tryScore, lines 426-437: the first move after which the player holds a
\* macro line.
tryScore(state, moves, player) ==
  LET hits == SelectSeq(moves,
                LAMBDA m : determineMacroWinner(
                             playMove(state, m.board, m.cell).state.boards)
                           = player)
  IN  IF hits = <<>> THEN Nothing ELSE Some(Head(hits))

\* Array.prototype.find on the moves that pass a test: the first, if any.
find(hits) == IF hits = <<>> THEN Nothing ELSE Some(Head(hits))

\* Lines 423-451.
fallbackMove(state, moves) ==
  LET winningMove == tryScore(state, moves, state.currentPlayer)
      blockingMove == tryScore(state, moves, Other(state.currentPlayer))
      centerMove == find(SelectSeq(moves, LAMBDA m : m.cell = 4))
      cornerMove ==
        find(SelectSeq(moves, LAMBDA m : m.cell \in {0, 2, 6, 8}))
  IN  IF winningMove # Nothing THEN winningMove
      ELSE IF blockingMove # Nothing THEN blockingMove
      ELSE IF centerMove # Nothing THEN centerMove
      ELSE IF cornerMove # Nothing THEN cornerMove
      ELSE Some(moves[1])

\* Variant: the search gives up when the player is sent to a board.
searchHaltedSent(state) == state.nextBoard # NoBoard

\* Line 399.
searchHalted(state) == state.pendingRpsBoard # NoBoard

\* Line 403.
searchDepth(level) == IF level = "hard" THEN 3 ELSE 2

\* chooseAIMove, as the set of the values it can return: Nothing for null,
\* Some(move) for a move.  Level easy draws the move with Math.random.
chooseAIMove(state, level) ==
  LET moves == availableMoves(state)
  IN  IF moves = <<>> THEN {Nothing}
      ELSE IF level = "easy" THEN {Some(moves[k]) : k \in DOMAIN moves}
      ELSE IF searchHalted(state) THEN {Nothing}
      ELSE LET bestMove == bestFrom(state, moves, searchDepth(level), 1,
                                    Nothing, -Infinity)
           IN  IF bestMove # Nothing THEN {bestMove}
               ELSE {fallbackMove(state, moves)}

\* ------------------------------------------------- persistence (606-624)

\* A text handed to parseState is one of: null or undefined, the empty
\* string, a text JSON.parse rejects, the text of a JSON value that is not an
\* object with properties (null, a number, a string, an array), or the text
\* of a JSON object, carried as the object itself.
RawNull == [kind |-> "null"]
RawEmpty == [kind |-> "empty"]
RawGarbage == [kind |-> "garbage"]
RawLiteral == [kind |-> "literal"]
RawObject(value) == [kind |-> "object", value |-> value]

\* JSON.stringify leaves out a property whose value is undefined: the
\* lastOutcome of a tiebreak sub-state before its first completed round.
stringifyRps(rps) ==
  IF rps = Nothing THEN Nothing
  ELSE IF rps[1].lastOutcome = undefined
    THEN Some([k \in DOMAIN rps[1] \ {"lastOutcome"} |-> rps[1][k]])
  ELSE rps

serializeState(state) ==
  RawObject([state EXCEPT
               !.boards = [b \in Index |->
                             [state.boards[b] EXCEPT
                                !.rps = stringifyRps(state.boards[b].rps)]],
               !.finalRps = stringifyRps(state.finalRps)])

\* Variant: the defaults are spread over the parsed object.
parseStateDefaultsLast(raw) ==
  IF raw.kind \in {"null", "empty"} THEN createInitialState
  ELSE IF raw.kind \in {"garbage", "literal"} THEN createInitialState
  ELSE LET parsed == raw.value
       IN  IF \/ "boards" \notin DOMAIN parsed
              \/ Cardinality(DOMAIN parsed.boards) # 9
             THEN createInitialState
             ELSE [k \in DOMAIN createInitialState \cup DOMAIN parsed |->
                     IF k \in DOMAIN createInitialState
                       THEN createInitialState[k] ELSE parsed[k]]

\* parseState, lines 610-624.  The result is the object the function
\* returns: the defaults of createInitialState overridden by every property
\* of the parsed object.
parseState(raw) ==
  IF raw.kind \in {"null", "empty"} THEN createInitialState     \* !raw
  ELSE IF raw.kind \in {"garbage", "literal"}
    THEN createInitialState       \* JSON.parse throws, or no boards property
  ELSE LET parsed == raw.value
       IN  IF \/ "boards" \notin DOMAIN parsed
              \/ Cardinality(DOMAIN parsed.boards) # 9
             THEN createInitialState
             ELSE [k \in DOMAIN createInitialState \cup DOMAIN parsed |->
                     IF k \in DOMAIN parsed
                       THEN parsed[k] ELSE createInitialState[k]]

\* Reading an object as a GameState: a property that is not there reads as
\* undefined.
readRps(rps) ==
  IF rps = Nothing THEN Nothing
  ELSE Some([k \in DOMAIN rps[1] \cup {"lastOutcome"} |->
               IF k \in DOMAIN rps[1] THEN rps[1][k] ELSE undefined])

readState(object) ==
  [object EXCEPT
     !.boards = [b \in Index |->
                   [object.boards[b] EXCEPT
                      !.rps = readRps(object.boards[b].rps)]],
     !.finalRps = readRps(object.finalRps)]

\* The texts parseState is given: the saved state, and damaged versions of
\* it.
RawNames ==
  {"saved", "null", "empty", "garbage", "literal", "noBoards", "eightBoards",
   "noCurrentPlayer", "noPendingRpsBoard"}

without(object, key) == [k \in DOMAIN object \ {key} |-> object[k]]

rawInput(state, name) ==
  LET saved == serializeState(state).value
  IN  CASE name = "saved" -> RawObject(saved)
        [] name = "null" -> RawNull
        [] name = "empty" -> RawEmpty
        [] name = "garbage" -> RawGarbage
        [] name = "literal" -> RawLiteral
        [] name = "noBoards" -> RawObject(without(saved, "boards"))
        [] name = "eightBoards" ->
             RawObject([saved EXCEPT
                          !.boards = [b \in 0 .. 7 |-> saved.boards[b]]])
        [] name = "noCurrentPlayer" ->
             RawObject(without(saved, "currentPlayer"))
        [] name = "noPendingRpsBoard" ->
             RawObject(without(saved, "pendingRpsBoard"))

\* Variant: the tiebreak goes on until a score reaches 3.
applyFinalRpsChoiceLong(state, player, choice) ==
  LET prior == state.finalRps[1]
      picks == withPick(prior.picks, player, choice)
      thrown == [prior EXCEPT !.picks = picks]
      outcome == compareRps(picks["X"], picks["O"])
      winningPlayer == IF outcome = "a" THEN "X" ELSE "O"
      decisive == bothPicked(picks) /\ outcome # "tie"
      finalRps ==
        IF ~bothPicked(picks) THEN thrown
        ELSE IF outcome = "tie"
          THEN [thrown EXCEPT !.picks = <<>>, !.lastOutcome = "tie"]
        ELSE [thrown EXCEPT
                !.picks = <<>>,
                !.lastOutcome = winningPlayer,
                !.score[winningPlayer] = thrown.score[winningPlayer] + 1,
                !.rounds = thrown.rounds + 1]
      ends == decisive /\ finalRps.score[winningPlayer] + 1 >= 4
  IN  [state |-> [state EXCEPT
                    !.finalRps = Some(finalRps),
                    !.pendingFinalRps = IF ends THEN FALSE
                                        ELSE state.pendingFinalRps,
                    !.macroWinner = IF ends THEN winningPlayer
                                    ELSE state.macroWinner,
                    !.currentPlayer = Other(player)],
       error |-> undefined,
       finalWinner |-> IF ends THEN winningPlayer ELSE undefined]

applyFinalRpsChoice(state, player, choice) ==
  LET prior == state.finalRps[1]
      picks == withPick(prior.picks, player, choice)
      thrown == [prior EXCEPT !.picks = picks]
      outcome == compareRps(picks["X"], picks["O"])
      winningPlayer == IF outcome = "a" THEN "X" ELSE "O"
      decisive == bothPicked(picks) /\ outcome # "tie"
      finalRps ==
        IF ~bothPicked(picks) THEN thrown
        ELSE IF outcome = "tie"
          THEN [thrown EXCEPT !.picks = <<>>, !.lastOutcome = "tie"]
        ELSE [thrown EXCEPT
                !.picks = <<>>,
                !.lastOutcome = winningPlayer,
                !.score[winningPlayer] = thrown.score[winningPlayer] + 1,
                !.rounds = thrown.rounds + 1]
      \* line 492 reads the score of the finalRps just rebuilt
      ends == decisive /\ finalRps.score[winningPlayer] + 1 >= 2
  IN  [state |-> [state EXCEPT
                    !.finalRps = Some(finalRps),
                    !.pendingFinalRps = IF ends THEN FALSE
                                        ELSE state.pendingFinalRps,
                    !.macroWinner = IF ends THEN winningPlayer
                                    ELSE state.macroWinner,
                    !.currentPlayer = Other(player)],
       error |-> undefined,
       finalWinner |-> IF ends THEN winningPlayer ELSE undefined]

\* Mutant of submitFinalRpsChoice: only the presence of finalRps is checked.
submitFinalRpsChoiceStale(state, player, choice) ==
  IF state.finalRps = Nothing
    THEN [state |-> state, error |-> "No final RPSLS pending.",
          finalWinner |-> undefined]
    ELSE applyFinalRpsChoice(state, player, choice)

submitFinalRpsChoice(state, player, choice) ==
  IF ~state.pendingFinalRps \/ state.finalRps = Nothing
    THEN [state |-> state, error |-> "No final RPSLS pending.",
          finalWinner |-> undefined]
    ELSE applyFinalRpsChoice(state, player, choice)

\* ------------------------------------------------------- start positions

\* Two matches played move by move from the fresh state, each up to a late
\* position and written in three parts.  Every entry is
\* <<boardIndex, cellIndex>>, applied by playMove.
MatchA1 ==
  << <<3, 3>>, <<3, 8>>, <<8, 4>>, <<4, 4>>, <<4, 8>>, <<8, 0>>, <<0, 8>>,
     <<8, 1>>, <<1, 3>>, <<3, 5>>, <<5, 8>>, <<8, 8>>, <<8, 7>>, <<7, 3>>,
     <<3, 2>>, <<2, 1>>, <<1, 5>>, <<5, 0>>, <<0, 0>>, <<0, 6>> >>

MatchA2 ==
  << <<6, 6>>, <<6, 3>>, <<3, 6>>, <<6, 5>>, <<5, 5>>, <<5, 3>>, <<3, 0>>,
     <<0, 5>>, <<5, 2>>, <<2, 0>>, <<0, 3>>, <<4, 5>>, <<0, 2>>, <<2, 8>>,
     <<8, 2>>, <<2, 5>>, <<7, 5>>, <<6, 4>>, <<4, 6>>, <<7, 0>> >>

MatchA3 ==
  << <<0, 7>>, <<7, 2>>, <<2, 3>>, <<4, 2>>, <<2, 4>>, <<4, 3>>, <<2, 2>>,
     <<2, 7>>, <<7, 4>>, <<1, 8>>, <<8, 5>>, <<1, 2>>, <<2, 6>>, <<1, 7>>,
     <<7, 6>>, <<1, 0>>, <<0, 4>>, <<8, 3>>, <<1, 1>>, <<1, 4>> >>

MatchB1 ==
  << <<2, 1>>, <<1, 3>>, <<3, 6>>, <<6, 2>>, <<2, 8>>, <<8, 1>>, <<1, 2>>,
     <<2, 5>>, <<5, 3>>, <<3, 2>>, <<2, 6>>, <<6, 0>>, <<0, 6>>, <<6, 3>>,
     <<3, 1>>, <<1, 8>>, <<8, 6>>, <<6, 4>>, <<4, 7>>, <<7, 7>> >>

MatchB2 ==
  << <<7, 3>>, <<3, 7>>, <<7, 1>>, <<1, 6>>, <<6, 1>>, <<1, 5>>, <<5, 0>>,
     <<0, 5>>, <<5, 1>>, <<1, 7>>, <<7, 5>>, <<5, 6>>, <<6, 6>>, <<6, 7>>,
     <<7, 8>>, <<8, 0>>, <<0, 0>>, <<0, 7>>, <<7, 4>>, <<4, 2>> >>

MatchB3 ==
  << <<2, 4>>, <<4, 4>>, <<4, 8>>, <<8, 5>>, <<5, 2>>, <<2, 7>>, <<2, 2>>,
     <<0, 1>>, <<3, 8>>, <<8, 8>>, <<8, 4>>, <<4, 1>>, <<4, 0>>, <<0, 3>>,
     <<3, 5>>, <<4, 3>>, <<3, 4>>, <<4, 5>>, <<8, 7>>, <<6, 8>>, <<8, 3>>,
     <<3, 0>> >>

\* The state after playMove has been called with each entry in turn.
RECURSIVE Replay(_, _)
Replay(state, moves) ==
  IF moves = <<>> THEN state
  ELSE Replay(playMove(state, Head(moves)[1], Head(moves)[2]).state,
              Tail(moves))

PositionA1 == Replay(createInitialState, MatchA1)
PositionA2 == Replay(PositionA1, MatchA2)
PositionA == Replay(PositionA2, MatchA3)

PositionB1 == Replay(createInitialState, MatchB1)
PositionB2 == Replay(PositionB1, MatchB2)
PositionB == Replay(PositionB2, MatchB3)

StartStates == {createInitialState, PositionA, PositionB}

Marks(state) ==
  Cardinality({bc \in Index \X Index :
                 state.boards[bc[1]].cells[bc[2]] # Null})

\* ---------------------------------------------------------------- actions

\* last: the operation called last and what it returned beside the state.
\* The arguments are kept for an accepted call only; a rejected call returns
\* the state it was given whatever its arguments.
Returned(op, input, r, resolvedRps, finalWinner) ==
  [op |-> op,
   input |-> IF r.error = undefined THEN Some(input) ELSE Nothing,
   error |-> r.error,
   resolvedRps |-> resolvedRps,
   finalWinner |-> finalWinner]

NoCall ==
  [op |-> "start", input |-> Nothing, error |-> undefined,
   resolvedRps |-> Nothing, finalWinner |-> undefined]

\* Local play: the page is not connected to a match (page.tsx 158-161),
\* there is no second page and nothing on the channel.
Offline == peerGame = Nothing /\ channel = <<>>

Init == game \in StartStates /\ last = NoCall /\ Offline

PlayMove(boardIndex, cellIndex) ==
  LET r == playMove(game, boardIndex, cellIndex)
  IN  /\ r.error = undefined => Marks(game) # MaxOpeningMarks
      /\ game' = r.state
      /\ last' = Returned("playMove",
                          [board |-> boardIndex, cell |-> cellIndex],
                          r, Nothing, undefined)
      /\ UNCHANGED <<peerGame, channel>>

SubmitRpsChoice(player, choice) ==
  LET r == submitRpsChoice(game, player, choice)
  IN  /\ game' = r.state
      /\ last' = Returned("submitRpsChoice",
                          [player |-> player, choice |-> choice],
                          r, r.resolvedRps, undefined)
      /\ UNCHANGED <<peerGame, channel>>

SubmitFinalRpsChoice(player, choice) ==
  LET r == submitFinalRpsChoice(game, player, choice)
  IN  /\ game' = r.state
      /\ last' = Returned("submitFinalRpsChoice",
                          [player |-> player, choice |-> choice],
                          r, Nothing, r.finalWinner)
      /\ UNCHANGED <<peerGame, channel>>

Next ==
  \/ \E boardIndex \in Index, cellIndex \in Index :
       PlayMove(boardIndex, cellIndex)
  \/ \E player \in Player, choice \in RpsChoice :
       SubmitRpsChoice(player, choice)
  \/ \E player \in Player, choice \in RpsChoice :
       SubmitFinalRpsChoice(player, choice)

Spec == Init /\ [][Next]_vars

\* getAllowedBoards as a function of any next-board constraint: the start
\* position is PositionA with nextBoard overwritten by every possible value,
\* the closed boards included.
InitConstraint ==
  /\ game \in {[PositionA EXCEPT !.nextBoard = n] : n \in Index \cup {NoBoard}}
  /\ last = NoCall
  /\ Offline

SpecConstraint == InitConstraint /\ [][Next]_vars

\* A throw the engine accepts, and a throw that resolves the pending board.
\* Throws are picked by the players or drawn by randomRpsChoice, so a throw
\* that can be made again and again is eventually made.
AcceptedThrow ==
  \E player \in Player, choice \in RpsChoice :
    SubmitRpsChoice(player, choice) /\ last'.error = undefined

DecisiveThrow ==
  \E player \in Player, choice \in RpsChoice :
    SubmitRpsChoice(player, choice) /\ last'.resolvedRps # Nothing

InitTiebreak == game = PositionA /\ last = NoCall /\ Offline

SpecTiebreak ==
  /\ InitTiebreak
  /\ [][Next]_vars
  /\ WF_vars(AcceptedThrow)
  /\ SF_vars(DecisiveThrow)

\* The AI turn of the page (page.tsx 310-337): when the player to move is a
\* bot and the match has no winner, the bot throws at random in a
\* micro-tiebreak and otherwise plays the move chooseAIMove returns.
AiThrow(choice) ==
  LET bot == game.bots[game.currentPlayer]
      r == submitRpsChoice(game, game.currentPlayer, choice)
  IN  /\ game.macroWinner = Null
      /\ bot # "none"
      /\ game.pendingRpsBoard # NoBoard
      /\ game' = r.state
      /\ last' = [op |-> "aiThrow",
                  input |-> Some([player |-> game.currentPlayer,
                                  choice |-> choice]),
                  error |-> undefined,
                  resolvedRps |-> r.resolvedRps,
                  finalWinner |-> undefined]
      /\ UNCHANGED <<peerGame, channel>>

AiMove ==
  LET bot == game.bots[game.currentPlayer]
  IN  /\ game.macroWinner = Null
      /\ bot # "none"
      /\ game.pendingRpsBoard = NoBoard
      /\ \E move \in chooseAIMove(game, bot) :
           /\ game' = IF move = Nothing THEN game
                      ELSE playMove(game, move[1].board, move[1].cell).state
           /\ last' = [op |-> "aiMove", input |-> move, error |-> undefined,
                       resolvedRps |-> Nothing, finalWinner |-> undefined]
      /\ UNCHANGED <<peerGame, channel>>

AiTurn == AiMove \/ \E choice \in RpsChoice : AiThrow(choice)

\* Matches with bots: the late position A under four pairings of levels, and
\* the late position B with two searching bots.
BotSettings ==
  {[X |-> "easy", O |-> "none"], [X |-> "smart", O |-> "hard"],
   [X |-> "hard", O |-> "easy"], [X |-> "none", O |-> "smart"]}

InitAI ==
  /\ game \in {[PositionA EXCEPT !.bots = bots] : bots \in BotSettings}
              \cup {[PositionB EXCEPT !.bots = [X |-> "hard", O |-> "smart"]]}
  /\ last = NoCall
  /\ Offline

NextAI == Next \/ AiTurn

SpecAI == InitAI /\ [][NextAI]_vars

\* The guard of the AI turn effect (page.tsx 311-313): the match has no
\* winner and the player to move is a bot.
BotToMove(state) ==
  state.macroWinner = Null /\ state.bots[state.currentPlayer] # "none"

\* A match in which a bot's turn is left to the AI driver: the engine is
\* called from outside only when the guard of the effect is false.  The timer
\* of the effect (page.tsx 316-331) fires whenever it is armed, hence the
\* weak fairness of the driver's step.
NextDriver ==
  \/ \E boardIndex \in Index, cellIndex \in Index :
       ~BotToMove(game) /\ PlayMove(boardIndex, cellIndex)
  \/ \E player \in Player, choice \in RpsChoice :
       ~BotToMove(game) /\ SubmitRpsChoice(player, choice)
  \/ \E player \in Player, choice \in RpsChoice :
       ~BotToMove(game) /\ SubmitFinalRpsChoice(player, choice)
  \/ AiMove
  \/ \E choice \in RpsChoice : AiThrow(choice)

\* Matches driven from position A: a bot against a person, either way
\* round, and two bots.
DriverSettings ==
  {[X |-> "easy", O |-> "none"], [X |-> "none", O |-> "easy"],
   [X |-> "easy", O |-> "easy"]}

InitDriver ==
  /\ game \in {[PositionA EXCEPT !.bots = bots] : bots \in DriverSettings}
  /\ last = NoCall
  /\ Offline

SpecDriver == InitDriver /\ [][NextDriver]_vars /\ WF_vars(AiTurn)

\* The page's handlers in local play.  handleCellClick (page.tsx 633-677)
\* ignores the click once the match is won and otherwise calls playMove.
HandleCellClick(boardIndex, cellIndex) ==
  game.macroWinner = Null /\ PlayMove(boardIndex, cellIndex)

\* handleRpsChoice (page.tsx 679-767): the throw is made for the player to
\* move, in the galaxy tiebreak when that is pending and in the micro-tiebreak
\* otherwise.
HandleRpsChoice(choice) ==
  IF game.pendingFinalRps
    THEN SubmitFinalRpsChoice(game.currentPlayer, choice)
    ELSE SubmitRpsChoice(game.currentPlayer, choice)

NextPage ==
  \/ \E boardIndex \in Index, cellIndex \in Index :
       HandleCellClick(boardIndex, cellIndex)
  \/ \E choice \in RpsChoice : HandleRpsChoice(choice)

SpecPage == Init /\ [][NextPage]_vars

\* The page starts from the text it finds in its cookie (page.tsx 189-191).
LoadState(name) ==
  /\ game' = readState(parseState(rawInput(game, name)))
  /\ last' = [op |-> "parseState", input |-> Some([raw |-> name]),
              error |-> undefined, resolvedRps |-> Nothing,
              finalWinner |-> undefined]
  /\ UNCHANGED <<peerGame, channel>>

InitReload == game = PositionA /\ last = NoCall /\ Offline

\* Play is followed from the late position only; a match that fell back to
\* the initial state is not played on here.
LatePlay == Marks(game) >= Marks(PositionA)

NextReload ==
  \/ \E boardIndex \in Index, cellIndex \in Index :
       LatePlay /\ PlayMove(boardIndex, cellIndex)
  \/ \E player \in Player, choice \in RpsChoice :
       LatePlay /\ SubmitRpsChoice(player, choice)
  \/ \E player \in Player, choice \in RpsChoice :
       LatePlay /\ SubmitFinalRpsChoice(player, choice)
  \/ \E name \in RawNames : LoadState(name)

SpecReload == InitReload /\ [][NextReload]_vars

\* ------------------------------------------------------------ remote play

\* Two pages play one match over a broadcast channel: game is the state of
\* the page with role X, peerGame the state of the page with role O, and
\* channel[r] the payloads sent to the page with role r and not yet handled,
\* oldest first.  Both players are people (bots none) and the passcodes
\* match; state snapshots are not sent.
MaxInFlight == 2

PageGame(role) == IF role = "X" THEN game ELSE peerGame

\* setGame of the page with the given role.
SetGame(role, state) ==
  IF role = "X"
    THEN game' = state /\ UNCHANGED peerGame
    ELSE peerGame' = state /\ UNCHANGED game

\* sendRemoteEvent (page.tsx 511-522): the payload is broadcast to the other
\* page.
Sent(role, payload) ==
  [channel EXCEPT ![Other(role)] = Append(@, payload)]

\* handleCellClick (page.tsx 633-677) on a connected page: the click is
\* ignored once the match is won or while the other player is to move;
\* playMove is applied and an accepted move is broadcast.
RemoteCellClick(role, boardIndex, cellIndex) ==
  LET state == PageGame(role)
      actor == state.currentPlayer
      r == playMove(state, boardIndex, cellIndex)
  IN  /\ Len(channel[Other(role)]) < MaxInFlight
      /\ state.macroWinner = Null
      /\ role = state.currentPlayer
      /\ SetGame(role, r.state)
      /\ channel' = IF r.error = undefined
                      THEN Sent(role, [kind |-> "move", board |-> boardIndex,
                                       cell |-> cellIndex, player |-> actor])
                      ELSE channel
      /\ last' = Returned("playMove",
                          [board |-> boardIndex, cell |-> cellIndex],
                          r, Nothing, undefined)

\* handleRpsChoice (page.tsx 679-767) on a connected page: ignored while the
\* other player is to move; the throw goes to submitFinalRpsChoice when the
\* galaxy tiebreak is pending and to submitRpsChoice otherwise, and is
\* broadcast as an "rps" payload in both cases (in the first only when the
\* call returned no error).
RemoteRpsChoice(role, choice) ==
  LET state == PageGame(role)
      actor == state.currentPlayer
      payload == [kind |-> "rps", choice |-> choice, player |-> actor]
  IN  /\ Len(channel[Other(role)]) < MaxInFlight
      /\ role = state.currentPlayer
      /\ IF state.pendingFinalRps
           THEN LET r == submitFinalRpsChoice(state, actor, choice)
                IN  /\ SetGame(role, r.state)
                    /\ channel' = IF r.error = undefined
                                    THEN Sent(role, payload) ELSE channel
                    /\ last' = Returned("submitFinalRpsChoice",
                                        [player |-> actor, choice |-> choice],
                                        r, Nothing, r.finalWinner)
           ELSE LET r == submitRpsChoice(state, actor, choice)
                IN  /\ SetGame(role, r.state)
                    /\ channel' = Sent(role, payload)
                    /\ last' = Returned("submitRpsChoice",
                                        [player |-> actor, choice |-> choice],
                                        r, r.resolvedRps, undefined)

\* handleRemotePayload (page.tsx 459-509): a "move" payload is applied with
\* playMove and an "rps" payload with submitRpsChoice, whatever the state of
\* the receiving page; the state returned replaces the page's state.
HandleRemotePayload(role) ==
  /\ channel[role] # <<>>
  /\ LET payload == Head(channel[role])
         state == PageGame(role)
         r == IF payload.kind = "move"
                THEN playMove(state, payload.board, payload.cell)
                ELSE submitRpsChoice(state, payload.player, payload.choice)
     IN  /\ SetGame(role, r.state)
         /\ last' = [op |-> "handleRemotePayload",
                     input |-> Some(payload),
                     error |-> r.error,
                     resolvedRps |-> Nothing,
                     finalWinner |-> undefined]
  /\ channel' = [channel EXCEPT ![role] = Tail(@)]

NextRemote ==
  \/ \E role \in Player, boardIndex \in Index, cellIndex \in Index :
       RemoteCellClick(role, boardIndex, cellIndex)
  \/ \E role \in Player, choice \in RpsChoice : RemoteRpsChoice(role, choice)
  \/ \E role \in Player : HandleRemotePayload(role)

\* The two pages start from equal states, one of the late positions.
InitRemote ==
  /\ game \in {PositionA, PositionB}
  /\ peerGame = game
  /\ channel = [X |-> <<>>, O |-> <<>>]
  /\ last = NoCall

SpecRemote == InitRemote /\ [][NextRemote]_vars

\* ---------------------------------------------------------------- phases

MicroPending(state) == state.pendingRpsBoard # NoBoard
GalaxyPending(state) == state.pendingFinalRps
MatchWon(state) == state.macroWinner # Null
NormalPlay(state) ==
  ~MicroPending(state) /\ ~GalaxyPending(state) /\ ~MatchWon(state)

Accepted(op) == last.op = op /\ last.error = undefined
Rejected(op) == last.op = op /\ last.error # undefined

\* ---------------------------------------------------------------- claims

\* C1: in every reachable state exactly one of the four phases holds:
\* micro-tiebreak pending, galaxy tiebreak pending, match won, normal play.
C1_ExactlyOnePhase ==
  Cardinality({ph \in {"micro", "galaxy", "won", "normal"} :
                 \/ ph = "micro" /\ MicroPending(game)
                 \/ ph = "galaxy" /\ GalaxyPending(game)
                 \/ ph = "won" /\ MatchWon(game)
                 \/ ph = "normal" /\ NormalPlay(game)}) = 1

\* C2: once the galaxy tiebreak has started it stays pending, with no macro
\* winner and no finalWinner reported, while both scores are below 2.
C2_GalaxyEndsAtTwo ==
  (game.finalRps # Nothing
     /\ game.finalRps[1].score["X"] < 2
     /\ game.finalRps[1].score["O"] < 2)
  => /\ game.pendingFinalRps
     /\ game.macroWinner = Null
     /\ last.finalWinner = undefined

\* C3: availableMoves is empty exactly when a tiebreak is pending or the
\* match has a macro winner.
C3_NoMovesIffHalted ==
  (availableMoves(game) = <<>>)
    <=> (MicroPending(game) \/ GalaxyPending(game) \/ MatchWon(game))

\* The legal-board set as the rules state it.
OpenBoards(state) == {b \in Index : state.boards[b].winner = Null}

LegalBoards(state) ==
  IF MicroPending(state) \/ GalaxyPending(state) THEN {}
  ELSE IF state.nextBoard # NoBoard /\ state.nextBoard \in OpenBoards(state)
    THEN {state.nextBoard}
  ELSE OpenBoards(state)

Range(list) == {list[k] : k \in DOMAIN list}

WellFormed(state) ==
  /\ DOMAIN state = {"boards", "macroWinner", "currentPlayer", "nextBoard",
                     "pendingRpsBoard", "pendingFinalRps", "finalRps",
                     "names", "bots"}
  /\ DOMAIN state.boards = Index
  /\ \A b \in Index :
       /\ state.boards[b].cells \in [Index -> Player \cup {Null}]
       /\ state.boards[b].winner \in Player \cup {"CAT", Null}
  /\ state.macroWinner \in Player \cup {Null}
  /\ state.currentPlayer \in Player
  /\ state.nextBoard \in Index \cup {NoBoard}
  /\ state.pendingRpsBoard \in Index \cup {NoBoard}
  /\ state.pendingFinalRps \in BOOLEAN
  /\ Len(state.finalRps) <= 1

\* C4: a cell only ever changes from empty to a player's mark, a marked cell
\* never changes, and a closed board stays closed, keeps all its cells and
\* rejects every playMove aimed at it.
C4_CellsOnlyFill ==
  /\ [](\A b \in Index, c \in Index :
          game.boards[b].winner # Null => playMove(game, b, c).error # undefined)
  /\ [][\A b \in Index :
          \/ game'.boards[b] = game.boards[b]
          \/ /\ game.boards[b].winner = Null
             /\ \A c \in Index :
                  /\ game.boards[b].cells[c] # Null
                       => game'.boards[b].cells[c] = game.boards[b].cells[c]
                  /\ game'.boards[b].cells[c]
                       \in {game.boards[b].cells[c], "X", "O"}
          \/ /\ game.boards[b].winner # Null
             /\ game'.boards[b].winner # Null
             /\ game'.boards[b].cells = game.boards[b].cells]_vars

\* C4 witness: with every open board legal, a playMove was rejected for its
\* board, so it was aimed at a closed board.
C4_Witness ==
  /\ Rejected("playMove")
  /\ last.error = "You cannot play in that board right now."
  /\ NormalPlay(game) /\ game.nextBoard = NoBoard
  /\ \E b \in Index : game.boards[b].winner \in Player

\* C5: every call that returns an error returns the state it was given, and
\* every other call returns a complete GameState.
C5_ErrorKeepsState ==
  /\ \A b \in Index, c \in Index :
       LET r == playMove(game, b, c)
       IN  IF r.error # undefined THEN r.state = game ELSE WellFormed(r.state)
  /\ \A p \in Player, ch \in RpsChoice :
       LET r == submitRpsChoice(game, p, ch)
       IN  IF r.error # undefined THEN r.state = game ELSE WellFormed(r.state)
  /\ \A p \in Player, ch \in RpsChoice :
       LET r == submitFinalRpsChoice(game, p, ch)
       IN  IF r.error # undefined THEN r.state = game ELSE WellFormed(r.state)

\* C5 witness: a playMove on an occupied cell has just been rejected.
C5_Witness ==
  Rejected("playMove") /\ last.error = "That square is already taken."

\* C6: playMove is rejected while a micro-tiebreak is pending, for a board
\* outside the legal-board set (every board while the galaxy tiebreak is
\* pending), for a closed board and for an occupied cell; submitRpsChoice is
\* rejected when no micro-tiebreak is pending and submitFinalRpsChoice when
\* no galaxy tiebreak is pending.
C6_Rejections ==
  /\ \A b \in Index, c \in Index :
       (\/ MicroPending(game)
        \/ b \notin LegalBoards(game)
        \/ game.boards[b].winner # Null
        \/ game.boards[b].cells[c] # Null)
         => playMove(game, b, c).error # undefined
  /\ \A p \in Player, ch \in RpsChoice :
       /\ ~MicroPending(game) => submitRpsChoice(game, p, ch).error # undefined
       /\ ~GalaxyPending(game)
            => submitFinalRpsChoice(game, p, ch).error # undefined

\* C6 witness: the galaxy tiebreak has been played to its end and a further
\* final throw was rejected.
C6_Witness ==
  /\ Rejected("submitFinalRpsChoice")
  /\ game.finalRps # Nothing /\ ~GalaxyPending(game)

\* C7: playMove(state, board, cell) succeeds exactly for the elements of
\* availableMoves(state).
C7_MoveIffAvailable ==
  \A b \in Index, c \in Index :
    (playMove(game, b, c).error = undefined)
      <=> includes(availableMoves(game), [board |-> b, cell |-> c])

\* C7 witness: after an accepted move the next player is sent to one board
\* and has moves there.
C7_Witness ==
  /\ Accepted("playMove")
  /\ game.nextBoard # NoBoard
  /\ availableMoves(game) # <<>>
  /\ Marks(game) > MaxOpeningMarks

\* C8: with no tiebreak pending, getAllowedBoards is {nextBoard} when
\* nextBoard names an open board and the set of all open boards otherwise.
C8_AllowedBoards ==
  (~MicroPending(game) /\ ~GalaxyPending(game))
    => Range(getAllowedBoards(game)) =
         IF game.nextBoard # NoBoard /\ game.boards[game.nextBoard].winner = Null
           THEN {game.nextBoard}
           ELSE {b \in Index : game.boards[b].winner = Null}

\* C8 witness: nextBoard names a closed board, playMove has consulted the
\* legal boards to reject a call, and two open boards are legal.
C8_Witness ==
  /\ game.nextBoard # NoBoard
  /\ game.boards[game.nextBoard].winner # Null
  /\ Rejected("playMove")
  /\ Len(getAllowedBoards(game)) = 2

\* C9: after an accepted playMove(state, b, c), nextBoard is c if board c is
\* open in the resulting state and null if it is closed there.
C9_NextBoard ==
  Accepted("playMove")
    => LET c == last.input[1].cell
       IN  game.nextBoard = IF game.boards[c].winner = Null THEN c ELSE NoBoard

\* C9 witness: the move was played in cell b of board b and closed that board.
C9_Witness ==
  /\ Accepted("playMove")
  /\ last.input[1].board = last.input[1].cell
  /\ game.boards[last.input[1].cell].winner # Null
  /\ game.nextBoard = NoBoard

\* C10: an accepted playMove puts the mark of the caller's currentPlayer in
\* the chosen, empty cell and hands the turn to the other player.
C10_MarkAndTurn ==
  [][(last'.op = "playMove" /\ last'.error = undefined)
       => LET m == last'.input[1]
          IN  /\ game.boards[m.board].cells[m.cell] = Null
              /\ game'.boards[m.board].cells[m.cell] = game.currentPlayer
              /\ game'.currentPlayer \in Player \ {game.currentPlayer}]_vars

\* C10 witness: the accepted move closed the last board and armed the galaxy
\* tiebreak.
C10_Witness ==
  /\ Accepted("playMove")
  /\ game.pendingFinalRps
  /\ game.finalRps = Some(emptyFinalRps)

\* A player holds a line of a grid of nine marks.
HoldsLine(cells, p) ==
  \E k \in DOMAIN WIN_LINES :
    \A j \in 1 .. 3 : cells[WIN_LINES[k][j]] = p

\* C11: an accepted playMove that fills the last empty cell of its board
\* without completing a line makes the board CAT with an rps sub-state of
\* empty picks and sets pendingRpsBoard to that board; when the move completes
\* a line the board's winner is the mover and pendingRpsBoard stays none.
C11_CatOrLine ==
  Accepted("playMove")
    => LET m == last.input[1]
           board == game.boards[m.board]
           mover == board.cells[m.cell]
           full == \A i \in Index : board.cells[i] # Null
       IN  /\ HoldsLine(board.cells, mover)
                => /\ board.winner = mover
                   /\ game.pendingRpsBoard = NoBoard
           /\ (full /\ ~HoldsLine(board.cells, mover))
                => /\ board.winner = "CAT"
                   /\ board.rps # Nothing
                   /\ board.rps[1].picks = <<>>
                   /\ game.pendingRpsBoard = m.board

\* C11 witness: the accepted move filled its board without a line.
C11_Witness ==
  /\ Accepted("playMove")
  /\ game.boards[last.input[1].board].winner = "CAT"
  /\ game.pendingRpsBoard = last.input[1].board
  /\ \A i \in Index : game.boards[last.input[1].board].cells[i] # Null

\* A throw dominates another by the rule table.
Dominates(a, b) == b \in RPS_RULES[a]

\* The throws on the table once the given throw is added to those recorded
\* on the pending board.
ThrowsAfter(state, in) ==
  LET board == state.boards[state.pendingRpsBoard]
      old == IF board.rps = Nothing THEN <<>> ELSE board.rps[1].picks
  IN  [p \in DOMAIN old \cup {in.player} |->
         IF p = in.player THEN in.choice ELSE old[p]]

\* The macro grid: each board's winner.
Winners(state) == [b \in Index |-> state.boards[b].winner]

\* C12: when a submitRpsChoice call completes a round in which one throw
\* dominates the other, the pending board's winner becomes the player with
\* the dominating throw, pendingRpsBoard becomes none, and macroWinner is
\* determineMacroWinner of the updated boards (a player holding a line of
\* board winners, none if nobody holds one).
C12_DecisiveRound ==
  [][(last'.op = "submitRpsChoice" /\ last'.error = undefined)
       => LET in == last'.input[1]
              b == game.pendingRpsBoard
              t == ThrowsAfter(game, in)
          IN  (DOMAIN t = Player /\ t["X"] # t["O"])
                => /\ \E w \in Player :
                        /\ Dominates(t[w], t[Other(w)])
                        /\ game'.boards[b].winner = w
                   /\ game'.pendingRpsBoard = NoBoard
                   /\ game'.macroWinner = determineMacroWinner(game'.boards)
                   /\ game'.macroWinner # Null
                        => HoldsLine(Winners(game'), game'.macroWinner)
                   /\ game'.macroWinner = Null
                        => \A p \in Player : ~HoldsLine(Winners(game'), p)]_vars

\* C12 witness: a decisive round gave its winner a line of boards.
C12_Witness ==
  /\ Accepted("submitRpsChoice")
  /\ last.resolvedRps # Nothing
  /\ game.pendingRpsBoard = NoBoard
  /\ game.boards[last.resolvedRps[1].boardIndex].winner
       = last.resolvedRps[1].winner
  /\ game.macroWinner = last.resolvedRps[1].winner

\* C13: when a submitRpsChoice call completes a round with two equal throws,
\* the picks are emptied, the board's winner is still CAT and pendingRpsBoard
\* still names the same board.
C13_TiedRound ==
  [][(last'.op = "submitRpsChoice" /\ last'.error = undefined)
       => LET in == last'.input[1]
              b == game.pendingRpsBoard
              t == ThrowsAfter(game, in)
          IN  (DOMAIN t = Player /\ t["X"] = t["O"])
                => /\ game'.boards[b].rps # Nothing
                   /\ game'.boards[b].rps[1].picks = <<>>
                   /\ game'.boards[b].winner = "CAT"
                   /\ game'.pendingRpsBoard = b]_vars

\* C13 witness: the round just completed was a tie.
C13_Witness ==
  /\ Accepted("submitRpsChoice")
  /\ game.pendingRpsBoard # NoBoard
  /\ game.boards[game.pendingRpsBoard].winner = "CAT"
  /\ game.boards[game.pendingRpsBoard].rps[1].lastOutcome = "tie"
  /\ game.boards[game.pendingRpsBoard].rps[1].picks = <<>>

\* C14: after every completed micro-tiebreak round, tied or decisive, the
\* picks recorded on the board are empty.
C14_PicksCleared ==
  [][(last'.op = "submitRpsChoice" /\ last'.error = undefined)
       => LET b == game.pendingRpsBoard
              t == ThrowsAfter(game, last'.input[1])
          IN  DOMAIN t = Player
                => /\ game'.boards[b].rps # Nothing
                   /\ game'.boards[b].rps[1].picks = <<>>]_vars

\* C15: every accepted submitRpsChoice call (first throw, tied round,
\* decisive round) hands the turn to the other player, relative to the
\* caller's currentPlayer.  Stated for the calls made by the player whose
\* turn it is, the only ones the page makes.
C15_TurnFlips ==
  [][(/\ last'.op = "submitRpsChoice"
      /\ last'.error = undefined
      /\ last'.input[1].player = game.currentPlayer)
       => game'.currentPlayer = Other(game.currentPlayer)]_vars

\* C16: with a micro-tiebreak pending, for every throw a player can make (or
\* has on the table) there is a throw of the opponent that makes the round
\* decisive, and under fair choice of throws (not tying for ever) the
\* tiebreak is eventually resolved: pendingRpsBoard is none and the board that
\* was pending is won by X or O.
C16_TiebreakResolves ==
  /\ [](MicroPending(game)
          => LET pending == game.pendingRpsBoard
                 thrown == DOMAIN game.boards[pending].rps[1].picks
                 Resolves(r) ==
                   /\ r.error = undefined
                   /\ r.state.pendingRpsBoard = NoBoard
                   /\ r.state.boards[pending].winner \in Player
             IN  \* a throw is on the table: the opponent can answer it
                 /\ \A p \in thrown :
                      \E b \in RpsChoice :
                        Resolves(submitRpsChoice(game, Other(p), b))
                 \* a new round: every opening throw can be answered
                 /\ thrown = {}
                      => \A p \in Player, a \in RpsChoice :
                           LET first == submitRpsChoice(game, p, a)
                           IN  /\ first.error = undefined
                               /\ \E b \in RpsChoice :
                                    Resolves(submitRpsChoice(first.state,
                                                             Other(p), b)))
  \* the pending board stays the same until it is resolved
  /\ [][MicroPending(game)
          => \/ game'.pendingRpsBoard = game.pendingRpsBoard
             \/ /\ game'.pendingRpsBoard = NoBoard
                /\ last'.resolvedRps # Nothing
                /\ last'.resolvedRps[1].boardIndex = game.pendingRpsBoard]_vars
  /\ MicroPending(game)
       ~> (/\ last.resolvedRps # Nothing
           /\ game.pendingRpsBoard = NoBoard
           /\ game.boards[last.resolvedRps[1].boardIndex].winner \in Player)

\* C16 witness: a board went through a tied round and was then resolved,
\* with play resuming.
C16_Witness ==
  /\ Accepted("submitRpsChoice")
  /\ last.resolvedRps # Nothing
  /\ game.pendingRpsBoard = NoBoard
  /\ game.macroWinner = Null
  /\ ~game.pendingFinalRps
  /\ game.boards[last.resolvedRps[1].boardIndex].winner \in Player

\* C17: the rule table is total and tie-free on distinct throws: for two
\* different throws exactly one dominates the other, and no throw dominates
\* itself.  compareRps(a, b) is "tie" exactly when a = b and otherwise names
\* the throw the table says dominates; the winner of every resolved round
\* holds the dominating throw.
C17_RulesTotal ==
  /\ DOMAIN RPS_RULES = RpsChoice
  /\ \A a \in RpsChoice :
       /\ RPS_RULES[a] \subseteq RpsChoice
       /\ a \notin RPS_RULES[a]
  /\ \A a, b \in RpsChoice :
       /\ a # b => ((b \in RPS_RULES[a]) <=> (a \notin RPS_RULES[b]))
       /\ (compareRps(a, b) = "tie") <=> (a = b)
       /\ (compareRps(a, b) = "a") <=> (b \in RPS_RULES[a])
       /\ (compareRps(a, b) = "b") <=> (a \in RPS_RULES[b])
  /\ last.resolvedRps # Nothing
       => LET r == last.resolvedRps[1]
          IN  /\ r.picks[Other(r.winner)] \in RPS_RULES[r.picks[r.winner]]
              /\ r.picks[r.winner] \notin RPS_RULES[r.picks[Other(r.winner)]]

\* C17 witness: a round of lizard against paper was resolved for lizard.
C17_Witness ==
  /\ last.resolvedRps # Nothing
  /\ last.resolvedRps[1].picks[last.resolvedRps[1].winner] = "lizard"
  /\ last.resolvedRps[1].picks[Other(last.resolvedRps[1].winner)] = "paper"

\* C18: after an accepted playMove or a decisive submitRpsChoice,
\* pendingFinalRps is true exactly when every board is closed, there is no
\* macro winner and no micro-tiebreak is pending; on arming, finalRps is
\* initialised with score X:0, O:0, rounds 0 and empty picks.
C18_GalaxyArmed ==
  (\/ Accepted("playMove")
   \/ Accepted("submitRpsChoice") /\ last.resolvedRps # Nothing)
    => /\ game.pendingFinalRps
            <=> /\ \A b \in Index : game.boards[b].winner # Null
                /\ game.macroWinner = Null
                /\ game.pendingRpsBoard = NoBoard
       /\ game.pendingFinalRps
            => /\ game.finalRps # Nothing
               /\ game.finalRps[1].score = [X |-> 0, O |-> 0]
               /\ game.finalRps[1].rounds = 0
               /\ game.finalRps[1].picks = <<>>

\* C18 witness: a decisive micro-tiebreak round closed the last board without
\* a macro winner and armed the galaxy tiebreak.
C18_Witness ==
  /\ Accepted("submitRpsChoice")
  /\ last.resolvedRps # Nothing
  /\ game.pendingFinalRps
  /\ game.finalRps # Nothing
  /\ game.finalRps[1].rounds = 0

\* C19: the galaxy-tiebreak round counter goes up by one with each decisive
\* round and is left alone by ties and first throws, so rounds is the sum of
\* the two scores; when finalWinner is reported, rounds is 2 or 3.
C19_RoundsCount ==
  /\ game.finalRps # Nothing
       => game.finalRps[1].rounds
            = game.finalRps[1].score["X"] + game.finalRps[1].score["O"]
  /\ last.finalWinner # undefined
       => /\ game.finalRps # Nothing
          /\ game.finalRps[1].rounds \in {2, 3}

\* The throws of the galaxy round once the given throw is added.
FinalThrowsAfter(state, in) ==
  LET old == state.finalRps[1].picks
  IN  [p \in DOMAIN old \cup {in.player} |->
         IF p = in.player THEN in.choice ELSE old[p]]

\* C20: submitFinalRpsChoice reports finalWinner exactly in the call that
\* clears pendingFinalRps; in the resulting state macroWinner is that
\* finalWinner, and that player's throw dominated the other's in the round
\* just completed.
C20_FinalWinner ==
  [][last'.op = "submitFinalRpsChoice"
       => /\ (last'.finalWinner # undefined)
               <=> (game.pendingFinalRps /\ ~game'.pendingFinalRps)
          /\ last'.finalWinner # undefined
               => LET w == last'.finalWinner
                      t == FinalThrowsAfter(game, last'.input[1])
                  IN  /\ w \in Player
                      /\ game'.macroWinner = w
                      /\ DOMAIN t = Player
                      /\ Dominates(t[w], t[Other(w)])]_vars

\* C20 witness: the call ended the galaxy tiebreak for O.
C20_Witness ==
  /\ Accepted("submitFinalRpsChoice")
  /\ last.finalWinner = "O"
  /\ game.macroWinner = "O"
  /\ ~game.pendingFinalRps

\* C21: the scores finalRps.score.X and finalRps.score.O never decrease, and
\* whenever pendingFinalRps is true both scores are below 2.
C21_ScoresMonotone ==
  /\ [](game.pendingFinalRps
          => /\ game.finalRps # Nothing
             /\ \A p \in Player : game.finalRps[1].score[p] < 2)
  /\ [][game.finalRps # Nothing
          => /\ game'.finalRps # Nothing
             /\ \A p \in Player :
                  game'.finalRps[1].score[p] >= game.finalRps[1].score[p]]_vars

\* C21 witness: a decisive galaxy round has raised X's score.
C21_Witness ==
  /\ Accepted("submitFinalRpsChoice")
  /\ game.finalRps # Nothing
  /\ game.finalRps[1].score = [X |-> 1, O |-> 0]
  /\ game.finalRps[1].lastOutcome = "X"

\* C22: whatever the level (none, easy, smart, hard), a move returned by
\* chooseAIMove is one of availableMoves(state): an empty cell of a board
\* that is legal to play, which playMove accepts.
C22_AiMoveLegal ==
  \A level \in BotLevel :
    \A m \in chooseAIMove(game, level) :
      m # Nothing
        => /\ \E k \in DOMAIN availableMoves(game) :
                availableMoves(game)[k] = m[1]
           /\ m[1].board \in LegalBoards(game)
           /\ game.boards[m[1].board].cells[m[1].cell] = Null
           /\ playMove(game, m[1].board, m[1].cell).error = undefined

\* C22 witness: a bot of level hard has just played the move chooseAIMove
\* returned, in a board it was sent to.
C22_Witness ==
  /\ last.op = "aiMove"
  /\ last.input # Nothing
  /\ game.bots[Other(game.currentPlayer)] = "hard"
  /\ game.boards[last.input[1].board].cells[last.input[1].cell]
       = Other(game.currentPlayer)

\* C23: chooseAIMove returns null only when availableMoves(state) is empty:
\* in a state with a legal move it returns a move, whatever the level.
C23_AiMovesWhenPossible ==
  \A level \in BotLevel :
    /\ chooseAIMove(game, level) # {}
    /\ availableMoves(game) # <<>> => Nothing \notin chooseAIMove(game, level)
    /\ availableMoves(game) = <<>> => chooseAIMove(game, level) = {Nothing}

\* C23 witness: a bot of level smart, sent to one board, has played and the
\* opponent has legal moves.
C23_Witness ==
  /\ last.op = "aiMove"
  /\ last.input # Nothing
  /\ game.bots[Other(game.currentPlayer)] = "smart"
  /\ availableMoves(game) # <<>>
  /\ Nothing \notin chooseAIMove(game, "smart")

\* The minimax score chooseAIMove gives a root move, and the legal moves
\* that share the maximal score, in the order of enumeration.
RootScore(state, level, m) ==
  minimax(playMove(state, m.board, m.cell).state,
          (IF level = "hard" THEN 3 ELSE 2) - 1, FALSE, state.currentPlayer)

TiedBest(state, level) ==
  LET moves == availableMoves(state)
      top == Max({RootScore(state, level, moves[k]) : k \in DOMAIN moves})
  IN  SelectSeq(moves, LAMBDA m : RootScore(state, level, m) = top)

\* The move wins the match at once; the opponent can win the match at once
\* after the move; the move blocks an immediate win of the opponent.
WinsNow(state, m) ==
  playMove(state, m.board, m.cell).state.macroWinner = state.currentPlayer

OpponentWinsAfter(state, m) ==
  LET after == playMove(state, m.board, m.cell).state
  IN  \E k \in DOMAIN availableMoves(after) :
        WinsNow(after, availableMoves(after)[k])

BlocksNow(state, m) ==
  /\ ~OpponentWinsAfter(state, m)
  /\ \E k \in DOMAIN availableMoves(state) :
       OpponentWinsAfter(state, availableMoves(state)[k])

\* C24: for levels smart and hard, when several legal root moves share the
\* maximal minimax score, chooseAIMove picks among them a move that wins the
\* match at once, else one that blocks an immediate win of the opponent,
\* else one in a center cell, else one in a corner cell, else the first
\* enumerated move.
C24_RootTieOrder ==
  \A level \in {"smart", "hard"} :
    LET tied == TiedBest(game, level)
        T == Range(tied)
    IN  (availableMoves(game) # <<>> /\ Len(tied) >= 2)
          => \A c \in chooseAIMove(game, level) :
               /\ c # Nothing
               /\ c[1] \in T
               /\ IF \E m \in T : WinsNow(game, m) THEN WinsNow(game, c[1])
                  ELSE IF \E m \in T : BlocksNow(game, m)
                    THEN BlocksNow(game, c[1])
                  ELSE IF \E m \in T : m.cell = 4 THEN c[1].cell = 4
                  ELSE IF \E m \in T : m.cell \in {0, 2, 6, 8}
                    THEN c[1].cell \in {0, 2, 6, 8}
                  ELSE c[1] = tied[1]

\* C24 as the code has it: for every level but easy, chooseAIMove returns
\* the first enumerated legal move among those with the maximal minimax
\* score; the win / block / center / corner order plays no part.
C24_FirstBest ==
  \A level \in {"none", "smart", "hard"} :
    availableMoves(game) # <<>>
      => chooseAIMove(game, level) = {Some(TiedBest(game, level)[1])}

\* C24 witness: in position B, with a hard bot to move, several moves share
\* the best score, one of them in a center cell and the first of them not;
\* the bot has played that first move.
C24_Witness ==
  LET before == [PositionB EXCEPT !.bots = [X |-> "hard", O |-> "smart"]]
      tied == TiedBest(before, "hard")
  IN  /\ Len(tied) >= 2
      /\ \E k \in DOMAIN tied : tied[k].cell = 4
      /\ tied[1].cell # 4
      /\ chooseAIMove(before, "hard") = {Some(tied[1])}
      /\ last.op = "aiMove"
      /\ last.input = Some(tied[1])
      /\ game = playMove(before, tied[1].board, tied[1].cell).state

\* Boards with the given winners (a function from Index), for feeding
\* determineMacroWinner with every assignment of winners.
BoardsWon(w) == [b \in Index |-> [createEmptyBoard EXCEPT !.winner = w[b]]]

WinnersOf(boards) == [b \in Index |-> boards[b].winner]

\* C25: determineMacroWinner returns P for every assignment of micro-board
\* winners in which P's won boards contain a complete line of the macro
\* grid, treats CAT boards as empty, and returns none when no board is won.
C25_MacroLineWins ==
  LET w == Winners(game)
  IN  /\ \A P \in Player :
           HoldsLine(w, P) => determineMacroWinner(game.boards) = P
      /\ (\A b \in Index : w[b] \in {Null, "CAT"})
           => determineMacroWinner(game.boards) = Null

\* What determineMacroWinner does with one assignment of winners.
MacroWinnerRule(boards) ==
  LET w == WinnersOf(boards)
      r == determineMacroWinner(boards)
      lines == {k \in DOMAIN WIN_LINES :
                  \E P \in Player : \A j \in 1 .. 3 : w[WIN_LINES[k][j]] = P}
  IN  /\ r \in Player \cup {Null}
      /\ \A P \in Player :
           (HoldsLine(w, P) /\ ~HoldsLine(w, Other(P))) => r = P
      /\ (\A P \in Player : ~HoldsLine(w, P)) <=> r = Null
      /\ lines # {}
           => \E k \in lines :
                /\ \A j \in lines : k <= j
                /\ r = w[WIN_LINES[k][1]]
      /\ r = determineMacroWinner(
                [b \in Index |->
                   IF boards[b].winner = "CAT"
                     THEN [boards[b] EXCEPT !.winner = Null]
                     ELSE boards[b]])

\* C25 as the code has it: determineMacroWinner returns P when P's boards
\* contain a complete line and the opponent's do not; when both do it
\* returns the owner of the first complete line in the order of WIN_LINES;
\* it returns none exactly when neither holds a line; CAT boards count as
\* empty.  Checked for every assignment of winners with the unwon boards all
\* open or all CAT, and in every reachable state.
C25_FirstLineWins ==
  /\ (last.op = "start" /\ game = createInitialState)
       => \A w \in [Index -> {"X", "O", Null}]
                    \cup [Index -> {"X", "O", "CAT"}] :
            MacroWinnerRule(BoardsWon(w))
  /\ MacroWinnerRule(game.boards)
  /\ last.op \in {"playMove", "submitRpsChoice"} /\ last.error = undefined
       => game.macroWinner = determineMacroWinner(game.boards)

\* C25 witness: a move gave O a line of boards while X already held one, and
\* the macro winner is the owner of the first of the two lines.
C25_Witness ==
  /\ Accepted("playMove")
  /\ \A P \in Player : HoldsLine(Winners(game), P)
  /\ game.macroWinner = determineMacroWinner(game.boards)
  /\ game.boards[last.input[1].board].winner = game.macroWinner

\* The eight lines of tic-tac-toe: three rows, three columns, two diagonals.
StandardLines ==
  {{0, 1, 2}, {3, 4, 5}, {6, 7, 8},
   {0, 3, 6}, {1, 4, 7}, {2, 5, 8},
   {0, 4, 8}, {2, 4, 6}}

Occupies(cells, p) == \E L \in StandardLines : \A i \in L : cells[i] = p

DetectWinnerRule(cells) ==
  LET r == detectWinner(cells)
  IN  /\ r \in Player \cup {Null}
      /\ r \in Player => Occupies(cells, r)
      /\ r = Null <=> \A p \in Player : ~Occupies(cells, p)

\* C26: detectWinner(cells) returns a player exactly when that player
\* occupies all three cells of at least one of the eight standard lines, and
\* none otherwise, a full board with no line included.  Checked for every
\* grid of nine cells and on every board of every reachable state.
C26_DetectWinner ==
  /\ Len(WIN_LINES) = 8
  /\ {Range(WIN_LINES[k]) : k \in DOMAIN WIN_LINES} = StandardLines
  /\ (last.op = "start" /\ game = createInitialState)
       => \A cells \in [Index -> {"X", "O", Null}] : DetectWinnerRule(cells)
  /\ \A b \in Index :
       /\ DetectWinnerRule(game.boards[b].cells)
       \* a board won on the grid shows its winner's line; a board that
       \* went to a tiebreak is full without a line
       /\ (game.boards[b].winner \in Player /\ game.boards[b].rps = Nothing)
            => detectWinner(game.boards[b].cells) = game.boards[b].winner
       /\ game.boards[b].rps # Nothing
            => detectWinner(game.boards[b].cells) = Null

\* C26 witness: the move just played completed the second diagonal of its
\* board for the mover.
C26_Witness ==
  /\ Accepted("playMove")
  /\ LET m == last.input[1]
         cells == game.boards[m.board].cells
     IN  /\ m.cell \in {2, 4, 6}
         /\ \A i \in {2, 4, 6} : cells[i] = cells[m.cell]
         /\ detectWinner(cells) = cells[m.cell]
         /\ game.boards[m.board].winner = cells[m.cell]

\* C27: on a decisive micro-tiebreak round submitRpsChoice returns a resolved
\* descriptor with the board that was pending, that board's new winner, both
\* throws of the round and the verb of the domination table for (winner's
\* throw, loser's throw), e.g. "smashes" for spock against scissors, never
\* the fallback "beats"; a first throw or a tie returns no descriptor.
C27_ResolvedDescriptor ==
  [][(last'.op = "submitRpsChoice" /\ last'.error = undefined)
       => LET b == game.pendingRpsBoard
              t == ThrowsAfter(game, last'.input[1])
          IN  IF DOMAIN t = Player /\ t["X"] # t["O"]
                THEN /\ last'.resolvedRps # Nothing
                     /\ LET r == last'.resolvedRps[1]
                        IN  /\ DOMAIN r
                                 = {"boardIndex", "winner", "picks", "verb"}
                            /\ r.boardIndex = b
                            /\ r.winner \in Player
                            /\ r.winner = game'.boards[b].winner
                            /\ r.picks = t
                            /\ r.verb
                                 = RPS_VERBS[t[r.winner]][t[Other(r.winner)]]
                            /\ r.verb # "beats"
                            /\ (t[r.winner] = "spock"
                                  /\ t[Other(r.winner)] = "scissors")
                                 => r.verb = "smashes"
                            /\ (t[r.winner] = "rock"
                                  /\ t[Other(r.winner)] = "scissors")
                                 => r.verb = "crushes"
                ELSE last'.resolvedRps = Nothing]_vars

\* C27 witness: X's spock smashed O's scissors.
C27_Witness ==
  /\ Accepted("submitRpsChoice")
  /\ last.resolvedRps # Nothing
  /\ last.resolvedRps[1].winner = "X"
  /\ last.resolvedRps[1].picks = [X |-> "spock", O |-> "scissors"]
  /\ last.resolvedRps[1].verb = "smashes"
  /\ game.boards[last.resolvedRps[1].boardIndex].winner = "X"

\* C28: submitRpsChoice records the submitting player's throw for the
\* current round, replacing any throw that player already made in it; the
\* round is evaluated only once both X and O have a recorded throw, so
\* consecutive throws by the same player never resolve or tie the round.
C28_ThrowRecorded ==
  [][(last'.op = "submitRpsChoice" /\ last'.error = undefined)
       => LET in == last'.input[1]
              b == game.pendingRpsBoard
              old == game.boards[b].rps[1]
              new == game'.boards[b].rps[1]
          IN  IF Other(in.player) \in DOMAIN old.picks
                THEN \* the round is complete: evaluated with the new throw
                     IF in.choice = old.picks[Other(in.player)]
                       THEN new.lastOutcome = "tie" /\ new.picks = <<>>
                       ELSE /\ last'.resolvedRps # Nothing
                            /\ last'.resolvedRps[1].picks[in.player]
                                 = in.choice
                            /\ last'.resolvedRps[1].picks[Other(in.player)]
                                 = old.picks[Other(in.player)]
                ELSE \* only this player has thrown: recorded, not evaluated
                     /\ DOMAIN new.picks = {in.player}
                     /\ new.picks[in.player] = in.choice
                     /\ new.lastOutcome = old.lastOutcome
                     /\ game'.pendingRpsBoard = b
                     /\ game'.boards[b].winner = "CAT"
                     /\ last'.resolvedRps = Nothing]_vars

\* C28 witness: after a tied round one player alone has thrown again and the
\* board is still pending.
C28_Witness ==
  /\ Accepted("submitRpsChoice")
  /\ game.pendingRpsBoard # NoBoard
  /\ LET rps == game.boards[game.pendingRpsBoard].rps[1]
     IN  /\ rps.lastOutcome = "tie"
         /\ DOMAIN rps.picks = {last.input[1].player}
         /\ rps.picks[last.input[1].player] = last.input[1].choice

\* C29: for every reachable state s, parseState(serializeState(s)) is a state
\* equal to s: same boards, winners, tiebreak sub-states, macroWinner,
\* currentPlayer, nextBoard, pending flags, names and bots.
C29_RoundTrip ==
  /\ serializeState(game).kind = "object"
  /\ readState(parseState(serializeState(game))) = game
  /\ \A k \in DOMAIN game :
       k \notin {"boards", "finalRps"}
         => parseState(serializeState(game))[k] = game[k]

\* C29 witness: the state was loaded from its own saved text while a
\* micro-tiebreak was pending with no round completed, so the text had left
\* out the lastOutcome of that board.
C29_Witness ==
  /\ last.op = "parseState"
  /\ last.input = Some([raw |-> "saved"])
  /\ game.pendingRpsBoard # NoBoard
  /\ game.boards[game.pendingRpsBoard].rps[1].lastOutcome = undefined
  /\ "lastOutcome" \notin
       DOMAIN serializeState(game).value.boards[game.pendingRpsBoard].rps[1]
  /\ readState(parseState(serializeState(game))) = game

\* C30: parseState returns exactly createInitialState() for every malformed
\* or structurally invalid input (unparsable text, a board list whose length
\* is not 9, an object missing required fields such as currentPlayer or
\* pendingRpsBoard), never a state assembled partly from such input.
C30_MalformedFallsBack ==
  (last.op = "parseState" /\ last.input # Some([raw |-> "saved"]))
    => game = createInitialState

\* The lines of a grid on which player p has exactly n marks and the other
\* player none.
LinesHeld(cells, p, n) ==
  {L \in StandardLines :
     /\ Cardinality({i \in L : cells[i] = p}) = n
     /\ \A i \in L : cells[i] \in {p, Null}}

\* The occupancy of a grid weighed for p's lines with w and for the
\* opponent's lines with v (three, two and one mark in an uncontested line).
Tally(cells, p, w, v) ==
  w[3] * Cardinality(LinesHeld(cells, p, 3))
    + w[2] * Cardinality(LinesHeld(cells, p, 2))
    + w[1] * Cardinality(LinesHeld(cells, p, 1))
    - v[3] * Cardinality(LinesHeld(cells, Other(p), 3))
    - v[2] * Cardinality(LinesHeld(cells, Other(p), 2))
    - v[1] * Cardinality(LinesHeld(cells, Other(p), 1))

ScoreRule(cells) ==
  \A p \in Player :
    scoreLines(cells, p) = Tally(cells, p, <<3, 15, 100>>, <<2, 12, 100>>)

\* C31 as stated: the line scoring is symmetric between the players,
\* scoreLines(cells, X) = -scoreLines(cells, O) for every 9-cell board.
C31_ScoreSymmetric ==
  \A b \in Index :
    scoreLines(game.boards[b].cells, "X")
      = -scoreLines(game.boards[b].cells, "O")

\* C31 amended: an uncontested line scores 100 / 15 / 3 for the evaluated
\* player's three / two / one marks and -100 / -12 / -2 for the opponent's,
\* a contested or empty line scores 0; hence scoreLines(cells, X) +
\* scoreLines(cells, O) is 3 for each line with two marks of one player and
\* 1 for each line with one mark, not 0.  Checked for every grid of nine
\* cells and on every board of every reachable state.
C31_ScoreWeights ==
  /\ (last.op = "start" /\ game.bots = [X |-> "easy", O |-> "none"])
       => \A cells \in [Index -> {"X", "O", Null}] : ScoreRule(cells)
  /\ \A b \in Index :
       LET cells == game.boards[b].cells
       IN  /\ ScoreRule(cells)
           /\ scoreLines(cells, "X") + scoreLines(cells, "O")
                = 3 * Cardinality(LinesHeld(cells, "X", 2)
                                    \cup LinesHeld(cells, "O", 2))
                  + Cardinality(LinesHeld(cells, "X", 1)
                                  \cup LinesHeld(cells, "O", 1))

\* C31 witness: a searching bot has just moved into a board where the mover
\* holds a line with two marks and one empty cell, so the two players' scores
\* of that board do not cancel.
C31_Witness ==
  /\ last.op = "aiMove"
  /\ last.input # Nothing
  /\ LET m == last.input[1]
         cells == game.boards[m.board].cells
         mover == cells[m.cell]
     IN  /\ game.bots[mover] \in {"smart", "hard"}
         /\ game.boards[m.board].winner = Null
         /\ LinesHeld(cells, mover, 2) # {}
         /\ scoreLines(cells, mover) # -scoreLines(cells, Other(mover))

\* C32: the match never stalls.  In every reachable state without a macro
\* winner a move is available, or a micro-tiebreak is pending, or the galaxy
\* tiebreak is pending, and in each case the engine accepts the matching
\* call: some playMove, every submitRpsChoice, every submitFinalRpsChoice.
C32_NeverStalls ==
  game.macroWinner = Null
    => /\ \/ availableMoves(game) # <<>>
          \/ MicroPending(game)
          \/ GalaxyPending(game)
       /\ \A k \in DOMAIN availableMoves(game) :
            LET move == availableMoves(game)[k]
            IN  playMove(game, move.board, move.cell).error = undefined
       /\ MicroPending(game)
            => \A player \in Player, choice \in RpsChoice :
                 submitRpsChoice(game, player, choice).error = undefined
       /\ GalaxyPending(game)
            => \A player \in Player, choice \in RpsChoice :
                 submitFinalRpsChoice(game, player, choice).error = undefined

\* C32 witness: a decisive micro-tiebreak round closed the last open board
\* without a macro line; no move is left and the galaxy tiebreak takes the
\* throws.
C32_Witness ==
  /\ Accepted("submitRpsChoice")
  /\ last.resolvedRps # Nothing
  /\ game.macroWinner = Null
  /\ \A b \in Index : game.boards[b].winner \in Player
  /\ availableMoves(game) = <<>>
  /\ ~MicroPending(game)
  /\ GalaxyPending(game)
  /\ submitFinalRpsChoice(game, "X", "rock").error = undefined

\* A round is about to start: a micro-tiebreak is pending with no throw on
\* the table.
RoundStart(state) ==
  /\ MicroPending(state)
  /\ state.boards[state.pendingRpsBoard].rps # Nothing
  /\ state.boards[state.pendingRpsBoard].rps[1].picks = <<>>

\* The state after a round of two equal throws, first by the given player.
TiedRoundFrom(state, first, choice) ==
  submitRpsChoice(submitRpsChoice(state, first, choice).state,
                  Other(first), choice).state

\* Everything but the tiebreak sub-states and currentPlayer is the same.
SameButRound(s, t) ==
  /\ \A b \in Index :
       /\ t.boards[b].cells = s.boards[b].cells
       /\ t.boards[b].winner = s.boards[b].winner
  /\ t.macroWinner = s.macroWinner
  /\ t.nextBoard = s.nextBoard
  /\ t.pendingRpsBoard = s.pendingRpsBoard
  /\ t.pendingFinalRps = s.pendingFinalRps
  /\ t.finalRps = s.finalRps

\* C33 as stated: a tied micro-tiebreak round, whoever throws first, leaves
\* boards' cells and winners, macroWinner, nextBoard, pendingRpsBoard,
\* pendingFinalRps, finalRps and currentPlayer as they were before the
\* round's two throws.
C33_TieFrame ==
  RoundStart(game)
    => \A first \in Player, choice \in RpsChoice :
         LET t == TiedRoundFrom(game, first, choice)
         IN  /\ SameButRound(game, t)
             /\ t.currentPlayer = game.currentPlayer

\* C33 amended: a tied round leaves cells, winners, macroWinner, nextBoard,
\* pendingRpsBoard, pendingFinalRps and finalRps unchanged and the picks
\* empty; currentPlayer is the player who threw first, which is the
\* currentPlayer of before the round exactly when the throws were made in
\* turn (as the page makes them).  Each single throw of such a round changes
\* nothing but the pending board's picks and lastOutcome and currentPlayer.
C33_TieFrameInTurn ==
  /\ [](RoundStart(game)
          => \A first \in Player, choice \in RpsChoice :
               LET t == TiedRoundFrom(game, first, choice)
                   rps == t.boards[t.pendingRpsBoard].rps
               IN  /\ SameButRound(game, t)
                   /\ rps = Some([picks |-> <<>>, lastOutcome |-> "tie"])
                   /\ t.currentPlayer = first
                   /\ t.currentPlayer = game.currentPlayer
                        <=> first = game.currentPlayer)
  /\ [][(/\ last'.op = "submitRpsChoice"
         /\ last'.error = undefined
         /\ last'.resolvedRps = Nothing)
          => /\ SameButRound(game, game')
             /\ \A b \in Index \ {game.pendingRpsBoard} :
                  game'.boards[b] = game.boards[b]]_vars

\* C33 witness: a round has just ended in a tie, and another tied round
\* thrown in turn from here gives back this very state.
C33_Witness ==
  /\ Accepted("submitRpsChoice")
  /\ RoundStart(game)
  /\ game.boards[game.pendingRpsBoard].rps[1].lastOutcome = "tie"
  /\ game.currentPlayer = Other(last.input[1].player)
  /\ TiedRoundFrom(game, game.currentPlayer, "spock") = game
  /\ TiedRoundFrom(game, Other(game.currentPlayer), "spock") # game

\* C34: in every reachable state a micro-board has winner CAT if and only if
\* its index equals pendingRpsBoard; hence at most one board is CAT at any
\* time, and after the resolution of a tiebreak no board is CAT.
C34_CatIffPending ==
  /\ \A b \in Index :
       game.boards[b].winner = "CAT" <=> game.pendingRpsBoard = b
  /\ Cardinality({b \in Index : game.boards[b].winner = "CAT"}) <= 1
  /\ (Accepted("submitRpsChoice") /\ last.resolvedRps # Nothing)
       => \A b \in Index : game.boards[b].winner # "CAT"

\* C34 witness: a tiebreak has just been resolved; the board that was CAT
\* and pending now belongs to the round's winner, nothing is pending and no
\* board is CAT, while play goes on in an open board.
C34_Witness ==
  /\ Accepted("submitRpsChoice")
  /\ last.resolvedRps # Nothing
  /\ game.pendingRpsBoard = NoBoard
  /\ game.boards[last.resolvedRps[1].boardIndex].winner
       = last.resolvedRps[1].winner
  /\ detectWinner(game.boards[last.resolvedRps[1].boardIndex].cells) = Null
  /\ {b \in Index : game.boards[b].winner = "CAT"} = {}
  /\ availableMoves(game) # <<>>

\* The driver has applied an action: its last step placed a mark or made a
\* throw.
DriverActed ==
  last.op \in {"aiMove", "aiThrow", "aiFinalThrow"} /\ last.input # Nothing

\* C35: whenever it is a bot's turn and macroWinner is none, the page's AI
\* driver eventually applies an action for that bot - a move in normal play,
\* a throw in a micro-tiebreak, a throw in the galaxy tiebreak - so a
\* bot-controlled side never blocks the match.
C35_DriverActs ==
  /\ (BotToMove(game) /\ NormalPlay(game)) ~> DriverActed
  /\ (BotToMove(game) /\ MicroPending(game)) ~> DriverActed
  /\ (BotToMove(game) /\ GalaxyPending(game)) ~> DriverActed

\* C36: once macroWinner is set it never changes and the match is over: from
\* a state with a macro winner every playMove, submitRpsChoice and
\* submitFinalRpsChoice call is rejected, so no later state has another
\* macroWinner or more marks.
C36_WinnerIsFinal ==
  [][game.macroWinner # Null
       => /\ game'.macroWinner = game.macroWinner
          /\ Marks(game') = Marks(game)
          /\ last'.op \in {"playMove", "submitRpsChoice",
                           "submitFinalRpsChoice"}
               => last'.error # undefined]_vars

\* The number of marks of one player on the nine boards.
MarksOf(state, p) ==
  Cardinality({bc \in Index \X Index :
                 state.boards[bc[1]].cells[bc[2]] = p})

\* C37: marks alternate over the whole match, tiebreaks included: with every
\* throw submitted by the player to move, the number of X marks minus the
\* number of O marks is 0 or 1 in every reachable state.
C37_MarksAlternate ==
  MarksOf(game, "X") - MarksOf(game, "O") \in {0, 1}

\* C38: in every reachable state nextBoard is either null or the index of a
\* micro-board whose winner is none; it never names a closed board, also
\* after a micro-tiebreak resolution.
C38_NextBoardOpen ==
  /\ game.nextBoard \in Index \cup {NoBoard}
  /\ game.nextBoard # NoBoard => game.boards[game.nextBoard].winner = Null

\* C38 witness: a micro-tiebreak has just been resolved and the player to
\* move is still sent to a board, another one than the board resolved, which
\* is open.
C38_Witness ==
  /\ Accepted("submitRpsChoice")
  /\ last.resolvedRps # Nothing
  /\ game.nextBoard # NoBoard
  /\ game.nextBoard # last.resolvedRps[1].boardIndex
  /\ game.boards[game.nextBoard].winner = Null
  /\ getAllowedBoards(game) = <<game.nextBoard>>

\* C39: in every reachable state each micro-board's winner is consistent
\* with its cells: winner is none iff no player has a complete line and at
\* least one cell is empty; at most one player has a complete line in a board
\* and then winner is that player; a board whose winner is X or O without a
\* line is full (it was won by tiebreak).
C39_WinnerMatchesCells ==
  \A b \in Index :
    LET board == game.boards[b]
        liners == {p \in Player : Occupies(board.cells, p)}
        full == \A i \in Index : board.cells[i] # Null
    IN  /\ board.winner = Null <=> (liners = {} /\ ~full)
        /\ Cardinality(liners) <= 1
        /\ \A p \in liners : board.winner = p
        /\ (board.winner \in Player /\ liners = {})
             => /\ full
                /\ board.rps # Nothing
                /\ board.rps[1].lastOutcome = board.winner

\* C39 witness: a tiebreak has just given a full board without a line to a
\* player, while another board is won on its cells and a third is open.
C39_Witness ==
  /\ Accepted("submitRpsChoice")
  /\ last.resolvedRps # Nothing
  /\ LET r == last.resolvedRps[1]
     IN  /\ game.boards[r.boardIndex].winner = r.winner
         /\ ~Occupies(game.boards[r.boardIndex].cells, r.winner)
         /\ \A i \in Index : game.boards[r.boardIndex].cells[i] # Null
  /\ \E b \in Index :
       /\ game.boards[b].winner \in Player
       /\ Occupies(game.boards[b].cells, game.boards[b].winner)
  /\ \E b \in Index :
       /\ game.boards[b].winner = Null
       /\ \E i \in Index : game.boards[b].cells[i] = Null

\* Nothing is in flight between the two pages.
Delivered == channel["X"] = <<>> /\ channel["O"] = <<>>

\* C40: in remote play two peers that start from equal GameStates stay
\* equal: once every action applied locally (a cell move, a micro-tiebreak
\* throw, a galaxy-tiebreak throw) has been broadcast and applied by the
\* peer's handleRemotePayload, both peers hold the same GameState.
C40_PeersAgree ==
  Delivered => game = peerGame

====
